---- MODULE Spec2Model ----
(***************************************************************************)
(* MTGCommanderRecommendationSystem (src/mtg_recommendation_system.py).    *)
(*                                                                         *)
(* The engine's state is what __init__ stores: the creature catalog, the   *)
(* cached embeddings, the training-example table, the per-commander        *)
(* pattern summary and the six scoring knobs.  The two queries,            *)
(* get_recommendations and get_commander_info, are the actions.            *)
(*                                                                         *)
(* Numbers.  Python floats are kept as fixed point: a similarity and an    *)
(* additive boost are counted in 1/Scale, a multiplicative penalty is a    *)
(* multiple of 1/Scale, so a score that went through both penalty steps    *)
(* is counted in 1/Scale^3.  Rounding of the floats is not modelled.       *)
(*                                                                         *)
(* Text.  oracle_text_clean is kept as the two things the engine reads     *)
(* from it: its length in characters and the term-weight vector the fitted *)
(* TF-IDF vectorizer (an external, pickled artifact) gives it.             *)
(***************************************************************************)
EXTENDS Integers, Sequences, FiniteSets, TLC

VARIABLES creatures_df, creature_embeddings, features_df, commander_patterns,
          keyword_boost, type_boost, power_boost, toughness_boost,
          known_penalty, short_text_penalty,
          call, ret, first, ready

engine == <<creatures_df, creature_embeddings, features_df, commander_patterns,
            keyword_boost, type_boost, power_boost, toughness_boost,
            known_penalty, short_text_penalty>>
vars == <<creatures_df, creature_embeddings, features_df, commander_patterns,
          keyword_boost, type_boost, power_boost, toughness_boost,
          known_penalty, short_text_penalty, call, ret, first, ready>>

(***************************************************************************)
(* Bounds of the model.                                                    *)
(***************************************************************************)
\* Longest list of training rows of the queried commander.
MaxRows == 2
\* Largest top_k a caller passes besides the default (the smallest is -1).
MaxTopK == 1
\* Longest list of training rows where only the patterns are looked at.
MaxListings == 4
\* Largest increase of keyword_boost between two engines that are compared.
MaxRaise == 2

(***************************************************************************)
(* Constants of the program.                                               *)
(***************************************************************************)
\* Fixed-point denominator of scores and penalties.
Scale == 20
\* top_k when the caller passes none.
DefaultTopK == 100
\* oracle_length < 40 is a short text.
ShortTextLimit == 40
\* power >= 4 is high power, power <= 2 is low power.
HighPowerMin == 4
LowPowerMax == 2
\* Shares of the companions, in percent, that switch a pattern on.
PowerShare == 75
ToughnessShare == 80

(***************************************************************************)
(* Small helpers on sequences.                                             *)
(***************************************************************************)
Range(s) == {s[i] : i \in DOMAIN s}

RECURSIVE SeqSum(_)
SeqSum(s) == IF s = <<>> THEN 0 ELSE Head(s) + SeqSum(Tail(s))

\* The items of s that satisfy Test, in the order of s (a Python
\* comprehension or a loop that appends).
SelectIndices(s, Test(_)) ==
    LET F[i \in 0..Len(s)] ==
            IF i = 0 THEN <<>>
            ELSE IF Test(i) THEN Append(F[i-1], i) ELSE F[i-1]
    IN F[Len(s)]

\* The items Op(s[1]), Op(s[2]), ... as a list.
MapSeq(s, Op(_)) ==
    LET F[i \in 0..Len(s)] ==
            IF i = 0 THEN <<>> ELSE Append(F[i-1], Op(s[i]))
    IN F[Len(s)]

\* Body at the value of x, x being evaluated once (a local variable).
With(x, Body(_)) == CHOOSE r \in {Body(v) : v \in {x}} : TRUE

\* Python's s[:k] : the first k items for k >= 0, all but the last -k for k < 0.
SliceStop(n, k) ==
    IF k >= 0 THEN (IF k < n THEN k ELSE n)
    ELSE (IF n + k > 0 THEN n + k ELSE 0)

SliceTo(s, k) == SubSeq(s, 1, SliceStop(Len(s), k))

(***************************************************************************)
(* Look-ups in the two tables.                                             *)
(***************************************************************************)
\* features_df[features_df['commander'] == commander_name], rows in order.
CommanderRecs(commander_name) ==
    MapSeq(SelectIndices(features_df,
               LAMBDA r : features_df[r].commander = commander_name),
           LAMBDA r : features_df[r])

\* The index of creatures_df[creatures_df['name'] == name]: the positions of
\* the catalog rows of that name, in catalog order.
CatalogIndex(name) ==
    SelectIndices(creatures_df, LAMBDA i : creatures_df[i].name = name)

\* set(commander_recs['recommended_creature'])
KnownCreatures(commander_recs) ==
    {commander_recs[r].recommended_creature : r \in DOMAIN commander_recs}

(***************************************************************************)
(* _precompute_embeddings: one vector per catalog row, from its text.      *)
(***************************************************************************)
Transform(text) == text.terms

PrecomputeEmbeddings(catalog) ==
    [i \in DOMAIN catalog |-> Transform(catalog[i].oracle_text_clean)]

(***************************************************************************)
(* _get_power_toughness_patterns                                           *)
(***************************************************************************)
NoPatterns ==
    [high_power_boost |-> FALSE, low_power_boost |-> FALSE,
     high_toughness_boost |-> FALSE]

\* pt_data: one (power, toughness) pair per training row whose creature is
\* in the catalog, a row listed twice counted twice.
PtData(commander_recs) ==
    MapSeq(SelectIndices(commander_recs,
               LAMBDA r : CatalogIndex(commander_recs[r].recommended_creature) # <<>>),
           LAMBDA r : With(creatures_df[CatalogIndex(
                                commander_recs[r].recommended_creature)[1]],
                           LAMBDA c : <<c.power_clean, c.toughness_clean>>))

\* sum(1 for ... if Test) / total >= share / 100
ShareAtLeast(pt_data, Test(_), share) ==
    Cardinality({j \in DOMAIN pt_data : Test(pt_data[j])}) * 100
        >= share * Len(pt_data)

\* Mutant: half of the pairs are enough for a power pattern.
PowerToughnessPatternsHalf(commander_recs) ==
    IF Len(commander_recs) = 0 THEN NoPatterns
    ELSE With(PtData(commander_recs), LAMBDA pt_data :
            IF pt_data = <<>> THEN NoPatterns
            ELSE [high_power_boost |->
                      ShareAtLeast(pt_data, LAMBDA d : d[1] >= HighPowerMin, 50),
                  low_power_boost |->
                      ShareAtLeast(pt_data, LAMBDA d : d[1] <= LowPowerMax, 50),
                  high_toughness_boost |->
                      ShareAtLeast(pt_data, LAMBDA d : d[2] > d[1], ToughnessShare)])

PowerToughnessPatterns(commander_recs) ==
    IF Len(commander_recs) = 0 THEN NoPatterns
    ELSE With(PtData(commander_recs), LAMBDA pt_data :
            IF pt_data = <<>> THEN NoPatterns
            ELSE [high_power_boost |->
                      ShareAtLeast(pt_data, LAMBDA d : d[1] >= HighPowerMin, PowerShare),
                  low_power_boost |->
                      ShareAtLeast(pt_data, LAMBDA d : d[1] <= LowPowerMax, PowerShare),
                  high_toughness_boost |->
                      ShareAtLeast(pt_data, LAMBDA d : d[2] > d[1], ToughnessShare)])

(***************************************************************************)
(* _is_valid_color_identity                                                *)
(***************************************************************************)
\* Mutant: sharing one colour with the commander is enough.
IsValidColorIdentityOverlap(creature_colors, commander_colors) ==
    IF creature_colors = {} THEN TRUE
    ELSE IF commander_colors = {} THEN FALSE
    ELSE creature_colors \cap commander_colors # {}

IsValidColorIdentity(creature_colors, commander_colors) ==
    IF creature_colors = {} THEN TRUE
    ELSE IF commander_colors = {} THEN FALSE
    ELSE creature_colors \subseteq commander_colors

(***************************************************************************)
(* The target embedding and the similarities.                              *)
(***************************************************************************)
\* rec_indices: for each training row in order, the first catalog position
\* of its creature, rows whose creature is not in the catalog skipped.
RecIndices(commander_recs) ==
    MapSeq(SelectIndices(commander_recs,
               LAMBDA r : CatalogIndex(commander_recs[r].recommended_creature) # <<>>),
           LAMBDA r : CatalogIndex(commander_recs[r].recommended_creature)[1])

VecAdd(u, v) ==
    LET F[d \in 0..Len(u)] == IF d = 0 THEN <<>> ELSE Append(F[d-1], u[d] + v[d])
    IN F[Len(u)]

\* The element-wise sum of the vectors of a list, zero being the zero vector.
VecSum(vectors, zero) ==
    LET F[j \in 0..Len(vectors)] ==
            IF j = 0 THEN zero
            ELSE With(F[j-1], LAMBDA acc : VecAdd(acc, vectors[j]))
    IN F[Len(vectors)]

\* np.mean(creature_embeddings[rec_indices], axis=0): the element-wise sum
\* over the number of rows.
TargetEmbedding(rec_indices) ==
    [num |-> VecSum(MapSeq(rec_indices, LAMBDA i : creature_embeddings[i]),
                    MapSeq(creature_embeddings[1], LAMBDA x : 0)),
     den |-> Len(rec_indices)]

Dot(u, v) ==
    LET F[d \in 0..Len(u)] == IF d = 0 THEN 0 ELSE F[d-1] + u[d] * v[d]
    IN F[Len(u)]

\* cosine_similarity of the target and one embedding, in 1/Scale, rounded
\* down; 0 when either vector is zero.  The target's denominator cancels.
CosineSimilarity(target, e) ==
    With(Dot(target.num, target.num) * Dot(e, e), LAMBDA nn :
    With(Scale * Dot(target.num, e), LAMBDA sd :
       IF nn = 0 \/ sd = 0 THEN 0
       ELSE CHOOSE k \in 0..Scale :
               /\ k * k * nn <= sd * sd
               /\ (k + 1) * (k + 1) * nn > sd * sd))

\* cosine_similarity([target_embedding], creature_embeddings)[0]
Similarities(target) ==
    MapSeq(creature_embeddings, LAMBDA e : CosineSimilarity(target, e))

(***************************************************************************)
(* get_recommendations: the score of one catalog row.                      *)
(***************************************************************************)
\* The knobs __init__ stores, as one record.
Config ==
    [keyword_boost |-> keyword_boost, type_boost |-> type_boost,
     power_boost |-> power_boost, toughness_boost |-> toughness_boost,
     known_penalty |-> known_penalty, short_text_penalty |-> short_text_penalty]

\* patterns.get(key, []) of commander_patterns.get(commander_name, {}),
\* the (value, support) pairs cut down to the value.
ConsensusList(commander_name, key) ==
    IF commander_name \in DOMAIN commander_patterns
    THEN MapSeq(commander_patterns[commander_name][key], LAMBDA pair : pair[1])
    ELSE <<>>

Boost(label, detail, amount) ==
    [label |-> label, detail |-> detail, amount |-> amount]

\* score += amount ; boosts.append(label)
AddBoost(st, label, detail, amount) ==
    [score |-> st.score + amount,
     boosts |-> Append(st.boosts, Boost(label, detail, amount))]

\* Mutant: the boost is the literal 0.1, whatever the knob.
KeywordStepLiteral(cfg, st, creature, consensus_keywords) ==
    IF \E j \in DOMAIN consensus_keywords :
          consensus_keywords[j] \in Range(creature.keywords_parsed)
    THEN AddBoost(st, "Keyword", "", 2)
    ELSE st

\* any(kw in creature_keywords for kw in consensus_keywords)
KeywordStep(cfg, st, creature, consensus_keywords) ==
    IF \E j \in DOMAIN consensus_keywords :
          consensus_keywords[j] \in Range(creature.keywords_parsed)
    THEN AddBoost(st, "Keyword", "", cfg.keyword_boost)
    ELSE st

\* Mutant: the loop over the consensus types without its break.
TypeStepNoBreak(cfg, st, creature, consensus_types) ==
    LET F[j \in 0..Len(consensus_types)] ==
            IF j = 0 THEN st
            ELSE IF consensus_types[j] \in Range(creature.secondary_type)
                 THEN AddBoost(F[j-1], "Type", consensus_types[j], cfg.type_boost)
                 ELSE F[j-1]
    IN F[Len(consensus_types)]

\* for consensus_type in consensus_types: if it is a tag of the creature,
\* boost and break.
TypeStep(cfg, st, creature, consensus_types) ==
    With(SelectIndices(consensus_types,
             LAMBDA j : consensus_types[j] \in Range(creature.secondary_type)),
         LAMBDA hits :
            IF hits = <<>> THEN st
            ELSE AddBoost(st, "Type", consensus_types[hits[1]], cfg.type_boost))

PowerToughnessStep(cfg, st, creature, pt_patterns) ==
    With(IF pt_patterns.high_power_boost /\ creature.power_clean >= HighPowerMin
         THEN AddBoost(st, "HighPower", "", cfg.power_boost) ELSE st, LAMBDA a :
    With(IF pt_patterns.low_power_boost /\ creature.power_clean <= LowPowerMax
         THEN AddBoost(a, "LowPower", "", cfg.power_boost) ELSE a, LAMBDA b :
       IF pt_patterns.high_toughness_boost
          /\ creature.toughness_clean > creature.power_clean
       THEN AddBoost(b, "HighToughness", "", cfg.toughness_boost) ELSE b))

\* len(str(text)) if text else 0
OracleLength(text) == IF text.len = 0 THEN 0 ELSE text.len

\* (1 - penalty) * 100, as the label of a penalty prints it.
PenaltyPct(penalty) == ((Scale - penalty) * 100) \div Scale

\* score *= penalty ; penalties.append(label).  The score leaves each of the
\* two steps one factor of Scale finer, penalised or not.
KnownStep(cfg, st, is_known) ==
    IF is_known
    THEN [score |-> st.score * cfg.known_penalty,
          penalties |-> Append(st.penalties,
                           [label |-> "Known", pct |-> PenaltyPct(cfg.known_penalty)])]
    ELSE [score |-> st.score * Scale, penalties |-> st.penalties]

ShortTextStep(cfg, st, oracle_length) ==
    IF oracle_length < ShortTextLimit
    THEN [score |-> st.score * cfg.short_text_penalty,
          penalties |-> Append(st.penalties,
                           [label |-> "ShortText", pct |-> PenaltyPct(cfg.short_text_penalty)])]
    ELSE [score |-> st.score * Scale, penalties |-> st.penalties]

\* Mutant: the two penalties scale the similarity alone, the boosts are
\* added after them.
ScoreCreaturePenaltiesFirst(cfg, creature, similarity, is_known, consensus_keywords, consensus_types, pt_patterns) ==
    With([score |-> 0, boosts |-> <<>>], LAMBDA s0 :
    With(KeywordStep(cfg, s0, creature, consensus_keywords), LAMBDA s1 :
    With(TypeStep(cfg, s1, creature, consensus_types), LAMBDA s2 :
    With(PowerToughnessStep(cfg, s2, creature, pt_patterns), LAMBDA s3 :
    With(OracleLength(creature.oracle_text_clean), LAMBDA oracle_length :
    With([score |-> similarity, penalties |-> <<>>], LAMBDA p0 :
    With(KnownStep(cfg, p0, is_known), LAMBDA p1 :
    With(ShortTextStep(cfg, p1, oracle_length), LAMBDA p2 :
       [creature_name   |-> creature.name,
        base_similarity |-> similarity,
        final_score     |-> p2.score + s3.score * Scale * Scale,
        boosts          |-> s3.boosts,
        penalties       |-> p2.penalties,
        is_known        |-> is_known,
        power_toughness |-> <<creature.power_clean, creature.toughness_clean>>,
        oracle_length   |-> oracle_length]))))))))

\* The body of the loop for one retained creature: lines 159-210.
ScoreCreature(cfg, creature, similarity, is_known, consensus_keywords, consensus_types, pt_patterns) ==
    With([score |-> similarity, boosts |-> <<>>], LAMBDA s0 :
    With(KeywordStep(cfg, s0, creature, consensus_keywords), LAMBDA s1 :
    With(TypeStep(cfg, s1, creature, consensus_types), LAMBDA s2 :
    With(PowerToughnessStep(cfg, s2, creature, pt_patterns), LAMBDA s3 :
    With(OracleLength(creature.oracle_text_clean), LAMBDA oracle_length :
    With([score |-> s3.score, penalties |-> <<>>], LAMBDA p0 :
    With(KnownStep(cfg, p0, is_known), LAMBDA p1 :
    With(ShortTextStep(cfg, p1, oracle_length), LAMBDA p2 :
       [creature_name   |-> creature.name,
        base_similarity |-> similarity,
        final_score     |-> p2.score,
        boosts          |-> s3.boosts,
        penalties       |-> p2.penalties,
        is_known        |-> is_known,
        power_toughness |-> <<creature.power_clean, creature.toughness_clean>>,
        oracle_length   |-> oracle_length]))))))))

(***************************************************************************)
(* get_recommendations: the filters, the sort and the cut.                 *)
(***************************************************************************)
\* Mutant: the commander is not skipped.
RetainedWithCommander(creature, commander_name, include_known, known_creatures, commander_colors) ==
    /\ ~(~include_known /\ creature.name \in known_creatures)
    /\ IsValidColorIdentity(creature.color_identity_parsed, commander_colors)

\* Mutant: include_known is not looked at.
RetainedWithKnown(creature, commander_name, include_known, known_creatures, commander_colors) ==
    /\ creature.name # commander_name
    /\ IsValidColorIdentity(creature.color_identity_parsed, commander_colors)

\* The three 'continue' tests of the loop, lines 146-157.
Retained(creature, commander_name, include_known, known_creatures, commander_colors) ==
    /\ creature.name # commander_name
    /\ ~(~include_known /\ creature.name \in known_creatures)
    /\ IsValidColorIdentity(creature.color_identity_parsed, commander_colors)

\* list.sort(key = final_score, reverse = True): stable, so records of
\* equal score keep the order they were appended in.
RECURSIVE InsertByScore(_, _)
InsertByScore(sorted, r) ==
    IF sorted = <<>> THEN <<r>>
    ELSE IF Head(sorted).final_score >= r.final_score
         THEN <<Head(sorted)>> \o InsertByScore(Tail(sorted), r)
         ELSE <<r>> \o sorted

\* Mutant: a sort that puts a record before the records of equal score.
RECURSIVE InsertBeforeTies(_, _)
InsertBeforeTies(sorted, r) ==
    IF sorted = <<>> THEN <<r>>
    ELSE IF Head(sorted).final_score > r.final_score
         THEN <<Head(sorted)>> \o InsertBeforeTies(Tail(sorted), r)
         ELSE <<r>> \o sorted

SortTiesReversed(recommendations) ==
    LET F[i \in 0..Len(recommendations)] ==
            IF i = 0 THEN <<>>
            ELSE With(F[i-1], LAMBDA sorted : InsertBeforeTies(sorted, recommendations[i]))
    IN F[Len(recommendations)]

SortByFinalScore(recommendations) ==
    LET F[i \in 0..Len(recommendations)] ==
            IF i = 0 THEN <<>>
            ELSE With(F[i-1], LAMBDA sorted : InsertByScore(sorted, recommendations[i]))
    IN F[Len(recommendations)]

\* The three early returns, lines 108, 114 and 133.
NoTrainingData(commander_recs) == Len(commander_recs) = 0
NotInDatabase(commander_info) == Len(commander_info) = 0
\* Mutant: the third early return is missing.
NoValidRecommendationsUnchecked(rec_indices) == FALSE
NoValidRecommendations(rec_indices) == rec_indices = <<>>

\* What a call hands back: the exception it raised ("none" when it returned),
\* the list get_recommendations returned, the record get_commander_info
\* returned.
Return(value) == [raised |-> "none", value |-> value]
Raise(error)  == [raised |-> error, value |-> <<>>]

\* The records of the loop, in catalog order, before the sort.
Scored(cfg, commander_name, include_known, commander_recs, commander_colors, similarities) ==
    With(KnownCreatures(commander_recs), LAMBDA known_creatures :
    With(PowerToughnessPatterns(commander_recs), LAMBDA pt_patterns :
    With(ConsensusList(commander_name, "consensus_keywords"), LAMBDA consensus_keywords :
    With(ConsensusList(commander_name, "consensus_types"), LAMBDA consensus_types :
       MapSeq(SelectIndices(creatures_df,
                  LAMBDA i : Retained(creatures_df[i], commander_name, include_known,
                                      known_creatures, commander_colors)),
              LAMBDA i : ScoreCreature(cfg, creatures_df[i], similarities[i],
                                       creatures_df[i].name \in known_creatures,
                                       consensus_keywords, consensus_types,
                                       pt_patterns))))))

\* get_recommendations with the knobs cfg.  commander_info.iloc[0] raises
\* IndexError on an empty frame, and cosine_similarity raises ValueError on
\* the NaN vector that the mean of no rows is.
Recommendations(cfg, commander_name, top_k, include_known) ==
    With(CommanderRecs(commander_name), LAMBDA commander_recs :
    With(CatalogIndex(commander_name), LAMBDA commander_info :
       IF NoTrainingData(commander_recs) THEN Return(<<>>)
       ELSE IF NotInDatabase(commander_info) THEN Return(<<>>)
       ELSE IF commander_info = <<>> THEN Raise("IndexError")
       ELSE With(RecIndices(commander_recs), LAMBDA rec_indices :
          IF NoValidRecommendations(rec_indices) THEN Return(<<>>)
          ELSE IF rec_indices = <<>> THEN Raise("ValueError")
          ELSE With(creatures_df[commander_info[1]].color_identity_parsed,
                    LAMBDA commander_colors :
               With(TargetEmbedding(rec_indices), LAMBDA target_embedding :
               With(Similarities(target_embedding), LAMBDA similarities :
               With(Scored(cfg, commander_name, include_known, commander_recs,
                           commander_colors, similarities), LAMBDA recommendations :
               With(SortByFinalScore(recommendations), LAMBDA sorted :
                  Return(SliceTo(sorted, top_k))))))))))

(***************************************************************************)
(* get_commander_info                                                      *)
(***************************************************************************)
None ==
    [present |-> FALSE, total_recommendations |-> 0, consensus_keywords |-> <<>>,
     consensus_types |-> <<>>, power_toughness_patterns |-> NoPatterns]

PatternPairs(commander_name, key) ==
    IF commander_name \in DOMAIN commander_patterns
    THEN commander_patterns[commander_name][key]
    ELSE <<>>

CommanderInfo(commander_name) ==
    With(CommanderRecs(commander_name), LAMBDA commander_recs :
       IF Len(commander_recs) = 0 THEN None
       ELSE [present |-> TRUE,
             total_recommendations |-> Len(commander_recs),
             consensus_keywords |-> PatternPairs(commander_name, "consensus_keywords"),
             consensus_types |-> PatternPairs(commander_name, "consensus_types"),
             power_toughness_patterns |-> PowerToughnessPatterns(commander_recs)])

(***************************************************************************)
(* The inputs the engine is built from.                                    *)
(***************************************************************************)
Text(len, terms) == [len |-> len, terms |-> terms]

\* The cards a catalog row is drawn from: colourless, one colour, two
\* colours; a text of 55 characters, one of 39 and one of 40; low power with
\* a higher toughness, low power, high power.
Cards ==
    { [oracle_text_clean |-> Text(55, <<2, 0>>), power_clean |-> 1, toughness_clean |-> 3,
       color_identity_parsed |-> {}, keywords_parsed |-> <<"Flying">>,
       secondary_type |-> <<"Bird">>],
      [oracle_text_clean |-> Text(39, <<1, 1>>), power_clean |-> 2, toughness_clean |-> 2,
       color_identity_parsed |-> {"U"}, keywords_parsed |-> <<"Flying", "Deathtouch">>,
       secondary_type |-> <<"Bird", "Wizard">>],
      [oracle_text_clean |-> Text(40, <<0, 2>>), power_clean |-> 5, toughness_clean |-> 5,
       color_identity_parsed |-> {"U", "B"}, keywords_parsed |-> <<>>,
       secondary_type |-> <<>>] }

\* The card of the last catalog row: colourless, with an empty text (the
\* zero embedding), high power and a higher toughness.
LastCard ==
    [oracle_text_clean |-> Text(0, <<0, 0>>), power_clean |-> 4, toughness_clean |-> 6,
     color_identity_parsed |-> {}, keywords_parsed |-> <<"Deathtouch">>,
     secondary_type |-> <<"Wizard">>]

\* The names of the catalog rows, in catalog order; names are unique.
CatalogNames == <<"Atraxa", "Strix", "Bear", "Golem">>
\* A name no catalog row has.
Ghost == "Ghost"

\* Catalogs: any card in each row but the last, Atraxa's row too.
Catalogs ==
    { [i \in DOMAIN CatalogNames |->
          [name |-> CatalogNames[i]] @@ (IF i < Len(CatalogNames) THEN k[i] ELSE LastCard)] :
        k \in [DOMAIN CatalogNames -> Cards] }

Row(commander, creature) ==
    [commander |-> commander, recommended_creature |-> creature]

RECURSIVE SeqsUpTo(_, _)
SeqsUpTo(S, n) ==
    IF n = 0 THEN {<<>>}
    ELSE LET shorter == SeqsUpTo(S, n - 1)
         IN shorter \cup {Append(q, x) : q \in shorter, x \in S}

\* The creatures the training rows of Atraxa name: Atraxa itself, a
\* creature in the middle of the catalog, and one the catalog lacks.
CompanionList == <<CatalogNames[1], CatalogNames[3], Ghost>>
Companions == Range(CompanionList)

\* Training tables: up to MaxRows rows of the commander Atraxa, a creature
\* listed more than once or not, the rows in the order of CompanionList
\* (the engine counts and averages over the rows, whatever their order);
\* then one row of the commander Ghost.
TrainingTables ==
    { MapSeq(q, LAMBDA n : Row(CatalogNames[1], CompanionList[n]))
        \o <<Row(Ghost, CatalogNames[2])>> :
        q \in {x \in SeqsUpTo(DOMAIN CompanionList, MaxRows) :
                  \A i, j \in DOMAIN x : i < j => x[i] <= x[j]} }

\* Pattern summaries: none for any commander, or one for Atraxa.
PatternSummaries ==
    { [n \in {} |-> 0],
      [n \in {CatalogNames[1]} |->
          [consensus_keywords |-> << <<"Deathtouch", 3>>, <<"Flying", 2>> >>,
           consensus_types    |-> << <<"Wizard", 3>>, <<"Bird", 2>> >>]] }

\* The knobs, in 1/Scale: the defaults of __init__ (0.1, 0.1, 0.05, 0.05,
\* 0.85, 0.90), and a configuration (0.2, 0.1, 0.05, 0.05, 0, 0.80) that
\* zeroes the score of a known companion.
Configs ==
    { [keyword_boost |-> 2, type_boost |-> 2, power_boost |-> 1,
       toughness_boost |-> 1, known_penalty |-> 17, short_text_penalty |-> 18],
      [keyword_boost |-> 4, type_boost |-> 2, power_boost |-> 1,
       toughness_boost |-> 1, known_penalty |-> 0, short_text_penalty |-> 16] }

CommanderNames == {CatalogNames[1], Ghost}
TopKs == ((0 - 1)..MaxTopK) \cup {DefaultTopK}

NoCall == [op |-> "none", commander_name |-> "", top_k |-> 0, include_known |-> FALSE]
NoReturn == [raised |-> "none", value |-> <<>>, info |-> None]
\* History, kept for the properties only: the first get_recommendations
\* call with what it returned, and whether another call followed it.
NoFirst == [seen |-> FALSE, call |-> NoCall, ret |-> NoReturn, other |-> FALSE]

(***************************************************************************)
(* The state after __init__.                                               *)
(***************************************************************************)
Init ==
    /\ creatures_df \in Catalogs
    /\ creature_embeddings = PrecomputeEmbeddings(creatures_df)
    /\ features_df \in TrainingTables
    /\ commander_patterns \in PatternSummaries
    /\ \E cfg \in Configs :
          /\ keyword_boost = cfg.keyword_boost
          /\ type_boost = cfg.type_boost
          /\ power_boost = cfg.power_boost
          /\ toughness_boost = cfg.toughness_boost
          /\ known_penalty = cfg.known_penalty
          /\ short_text_penalty = cfg.short_text_penalty
    /\ call = NoCall
    /\ ret = NoReturn
    /\ first = NoFirst
    /\ ready = "ready"

(***************************************************************************)
(* The two queries.                                                        *)
(***************************************************************************)
\* Mutant: a query that remembers what it was asked, adding the first
\* creature it returns to the commander's training rows.
get_recommendations_learning(commander_name, top_k, include_known) ==
    /\ ready = "ready"
    /\ \E r \in {Recommendations(Config, commander_name, top_k, include_known)} :
          /\ ret' = [raised |-> r.raised, value |-> r.value, info |-> None]
          /\ features_df' = IF r.value = <<>> THEN features_df
                             ELSE Append(features_df,
                                         Row(commander_name, r.value[1].creature_name))
    /\ call' = [op |-> "get_recommendations", commander_name |-> commander_name,
                top_k |-> top_k, include_known |-> include_known]
    /\ UNCHANGED <<creatures_df, creature_embeddings, commander_patterns,
                   keyword_boost, type_boost, power_boost, toughness_boost,
                   known_penalty, short_text_penalty, ready>>

\* A query needs an engine, which only a completed __init__ hands out.
get_recommendations(commander_name, top_k, include_known) ==
    /\ ready = "ready"
    /\ \E r \in {Recommendations(Config, commander_name, top_k, include_known)} :
          ret' = [raised |-> r.raised, value |-> r.value, info |-> None]
    /\ call' = [op |-> "get_recommendations", commander_name |-> commander_name,
                top_k |-> top_k, include_known |-> include_known]
    /\ UNCHANGED <<engine, ready>>

get_commander_info(commander_name) ==
    /\ ready = "ready"
    /\ ret' = [raised |-> "none", value |-> <<>>, info |-> CommanderInfo(commander_name)]
    /\ call' = [op |-> "get_commander_info", commander_name |-> commander_name,
                top_k |-> 0, include_known |-> FALSE]
    /\ UNCHANGED <<engine, ready>>

Next ==
    \/ \E c \in CommanderNames, k \in TopKs, b \in BOOLEAN :
          get_recommendations(c, k, b) /\ UNCHANGED first
    \/ \E c \in CommanderNames :
          get_commander_info(c) /\ UNCHANGED first

Spec == Init /\ [][Next]_vars

(***************************************************************************)
(* The same engine with the history of the calls recorded: the defaults of *)
(* __init__, a pattern summary, and two training rows of Atraxa, one of    *)
(* them naming a creature the catalog lacks.                               *)
(***************************************************************************)
InitRepeat ==
    /\ Init
    /\ keyword_boost = 2 /\ known_penalty = 17
    /\ commander_patterns # [n \in {} |-> 0]
    /\ features_df = <<Row(CatalogNames[1], CatalogNames[3]), Row(CatalogNames[1], Ghost),
                       Row(Ghost, CatalogNames[2])>>

Record ==
    first' = IF ~first.seen /\ call'.op = "get_recommendations"
             THEN [seen |-> TRUE, call |-> call', ret |-> ret', other |-> FALSE]
             ELSE IF first.seen /\ call' # first.call
                  THEN [first EXCEPT !.other = TRUE]
                  ELSE first

NextRepeat ==
    \/ \E c \in CommanderNames, k \in TopKs, b \in BOOLEAN :
          get_recommendations(c, k, b) /\ Record
    \/ \E c \in CommanderNames :
          get_commander_info(c) /\ Record

SpecRepeat == InitRepeat /\ [][NextRepeat]_vars

(***************************************************************************)
(* The engine asked about the patterns, over longer training tables with   *)
(* the rows in any order: get_commander_info, and get_recommendations with *)
(* its default arguments.                                                  *)
(***************************************************************************)
\* The creatures these tables list: the companions above and the creature
\* of the last catalog row.
Listed == Companions \cup {CatalogNames[Len(CatalogNames)]}

ListingTables ==
    { q \o <<Row(Ghost, CatalogNames[2])>> :
        q \in SeqsUpTo({Row(CatalogNames[1], n) : n \in Listed}, MaxListings) }

InitPatterns ==
    /\ creatures_df \in Catalogs
    /\ creature_embeddings = PrecomputeEmbeddings(creatures_df)
    /\ features_df \in ListingTables
    /\ commander_patterns = [n \in {} |-> 0]
    /\ keyword_boost = 2 /\ type_boost = 2 /\ power_boost = 1
    /\ toughness_boost = 1 /\ known_penalty = 17 /\ short_text_penalty = 18
    /\ call = NoCall
    /\ ret = NoReturn
    /\ first = NoFirst
    /\ ready = "ready"

NextPatterns ==
    \/ \E c \in CommanderNames : get_commander_info(c) /\ UNCHANGED first
    \/ \E c \in CommanderNames :
          get_recommendations(c, DefaultTopK, TRUE) /\ UNCHANGED first

SpecPatterns == InitPatterns /\ [][NextPatterns]_vars

(***************************************************************************)
(* Construction as a step of its own.  The arguments of __init__ are in    *)
(* the fields it assigns first (lines 31-42); the catalog may have no row. *)
(* _precompute_embeddings then hands the texts to tfidf.transform, the     *)
(* only statement of __init__ that can fail.  That object is unpickled     *)
(* from outside the module: on a batch of no texts it either raises or     *)
(* answers a matrix of no rows, and the module tests for neither.          *)
(***************************************************************************)
\* The catalogs a caller may pass: those above and the one with no row.
CatalogsOrNone == Catalogs \cup {<<>>}

InitConstruct ==
    /\ creatures_df \in CatalogsOrNone
    /\ creature_embeddings = <<>>
    /\ features_df \in TrainingTables
    /\ commander_patterns \in PatternSummaries
    /\ keyword_boost = 2 /\ type_boost = 2 /\ power_boost = 1
    /\ toughness_boost = 1 /\ known_penalty = 17 /\ short_text_penalty = 18
    /\ call = NoCall
    /\ ret = NoReturn
    /\ first = NoFirst
    /\ ready = "constructing"

\* self.tfidf.transform(creature_texts).toarray() : one embedding per row, or
\* the exception of the vectorizer, which __init__ lets through.
__init__(transform_raises) ==
    /\ ready = "constructing"
    /\ IF transform_raises
       THEN /\ ready' = "failed"
            /\ ret' = [raised |-> "ConstructionError", value |-> <<>>, info |-> None]
            /\ UNCHANGED creature_embeddings
       ELSE /\ ready' = "ready"
            /\ creature_embeddings' = PrecomputeEmbeddings(creatures_df)
            /\ UNCHANGED ret
    /\ UNCHANGED <<creatures_df, features_df, commander_patterns, keyword_boost,
                   type_boost, power_boost, toughness_boost, known_penalty,
                   short_text_penalty, call, first>>

\* What tfidf.transform may do with the texts of this catalog: it embeds one
\* text or more; with none, either outcome.
TransformOutcomes == IF Len(creatures_df) = 0 THEN BOOLEAN ELSE {FALSE}

NextConstruct ==
    \/ \E transform_raises \in TransformOutcomes : __init__(transform_raises)
    \/ \E c \in CommanderNames, k \in TopKs, b \in BOOLEAN :
          get_recommendations(c, k, b) /\ UNCHANGED first
    \/ \E c \in CommanderNames :
          get_commander_info(c) /\ UNCHANGED first

SpecConstruct == InitConstruct /\ [][NextConstruct]_vars

(***************************************************************************)
(* What the properties below read off a state.                             *)
(***************************************************************************)
IsRecs == call.op = "get_recommendations"
IsInfo == call.op = "get_commander_info"

Returned == ret.value
ReturnedNames == {Returned[j].creature_name : j \in DOMAIN Returned}

\* The creatures the training rows list for a commander.
TrainedWith(c) ==
    {features_df[r].recommended_creature :
        r \in {x \in DOMAIN features_df : features_df[x].commander = c}}

InCatalog(n) == \E p \in DOMAIN creatures_df : creatures_df[p].name = n
CatalogPos(n) == CHOOSE p \in DOMAIN creatures_df : creatures_df[p].name = n
CardOf(n) == creatures_df[CatalogPos(n)]
Resolved(c) == {n \in TrainedWith(c) : InCatalog(n)}

\* The call got past the three early returns.
Answered == InCatalog(call.commander_name) /\ Resolved(call.commander_name) # {}

\* The call cut nothing off the list.
Uncut == call.top_k >= Len(creatures_df)

Legal(creature_colors, commander_colors) ==
    creature_colors = {} \/ creature_colors \subseteq commander_colors

BoostSum(r) == SeqSum(MapSeq(r.boosts, LAMBDA b : b.amount))
GotBoost(r, label) == \E b \in DOMAIN r.boosts : r.boosts[b].label = label

(***************************************************************************)
(* C1.  The returned list is ordered by final_score, highest first, and    *)
(* two records of equal final_score stand in catalog order.                *)
(***************************************************************************)
C1_SortedStable ==
    IsRecs =>
      \A i, j \in DOMAIN Returned :
         i < j =>
           /\ Returned[i].final_score >= Returned[j].final_score
           /\ Returned[i].final_score = Returned[j].final_score
                => CatalogPos(Returned[i].creature_name)
                     < CatalogPos(Returned[j].creature_name)

\* A list with a tie in it, and with a record the sort moved ahead of a
\* record that is earlier in the catalog.
C1_Witness ==
    /\ IsRecs
    /\ \E i, j \in DOMAIN Returned :
          i < j /\ Returned[i].final_score = Returned[j].final_score
    /\ \E i, j \in DOMAIN Returned :
          /\ i < j
          /\ Returned[i].final_score > Returned[j].final_score
          /\ CatalogPos(Returned[i].creature_name) > CatalogPos(Returned[j].creature_name)

(***************************************************************************)
(* C2.  Every returned creature has an empty colour identity or one that   *)
(* is a subset of the commander's; and when nothing is cut off the list, a *)
(* catalog creature that is not the commander and is not left out as a     *)
(* known companion is returned exactly if its colour identity is empty or  *)
(* a subset of the commander's.                                            *)
(***************************************************************************)
C2_ColorLegality ==
    IsRecs /\ Answered =>
      LET c == call.commander_name
          commander_colors == CardOf(c).color_identity_parsed
      IN /\ \A n \in ReturnedNames :
               Legal(CardOf(n).color_identity_parsed, commander_colors)
         /\ Uncut =>
              \A p \in DOMAIN creatures_df :
                 LET n == creatures_df[p].name
                 IN (n # c /\ (call.include_known \/ n \notin TrainedWith(c)))
                      => (n \in ReturnedNames
                            <=> Legal(creatures_df[p].color_identity_parsed,
                                      commander_colors))

\* A coloured commander whose list holds a colourless and a coloured
\* creature and lacks a creature that shares a colour with it.
C2_Witness ==
    /\ IsRecs /\ Answered /\ Uncut
    /\ LET commander_colors == CardOf(call.commander_name).color_identity_parsed
       IN /\ commander_colors # {}
          /\ \E n \in ReturnedNames : CardOf(n).color_identity_parsed = {}
          /\ \E n \in ReturnedNames : CardOf(n).color_identity_parsed # {}
          /\ \E p \in DOMAIN creatures_df :
                /\ creatures_df[p].name \notin ReturnedNames
                /\ creatures_df[p].color_identity_parsed \cap commander_colors # {}
                /\ ~(creatures_df[p].color_identity_parsed \subseteq commander_colors)

(***************************************************************************)
(* C3.  final_score = (base_similarity + the boosts of the record)         *)
(* x (known_penalty for a known companion) x (short_text_penalty for a     *)
(* text shorter than 40), in 1/Scale^3: the penalties scale the boosts     *)
(* too, and a text of 40 or more is not penalised.                         *)
(***************************************************************************)
C3_PenaltiesAfterBoosts ==
    IsRecs =>
      \A j \in DOMAIN Returned :
         LET r == Returned[j]
             known == r.creature_name \in TrainedWith(call.commander_name)
             short == CardOf(r.creature_name).oracle_text_clean.len < ShortTextLimit
         IN r.final_score =
               (r.base_similarity + BoostSum(r))
                 * (IF known THEN known_penalty ELSE Scale)
                 * (IF short THEN short_text_penalty ELSE Scale)

\* A boosted known companion with a short text, and a boosted known
\* companion with a text of 40 or more, under penalties that change a score.
C3_Witness ==
    /\ IsRecs
    /\ known_penalty \notin {0, Scale}
    /\ \E j \in DOMAIN Returned :
          /\ Returned[j].is_known /\ Returned[j].boosts # <<>>
          /\ Returned[j].base_similarity > 0
          /\ Returned[j].oracle_length < ShortTextLimit
    /\ \E j \in DOMAIN Returned :
          /\ Returned[j].boosts # <<>>
          /\ Returned[j].base_similarity > 0
          /\ Returned[j].oracle_length >= ShortTextLimit

(***************************************************************************)
(* C4.  As claimed: for every top_k the returned list is the first top_k   *)
(* records of the whole sorted list, all of it when it has fewer, so it    *)
(* never has more than top_k records (none for a top_k below 1).           *)
(***************************************************************************)
\* The whole sorted list of the call: the same call cut at the catalog's length.
WholeList ==
    Recommendations(Config, call.commander_name, Len(creatures_df),
                    call.include_known).value

FirstRecords(list, n) ==
    SubSeq(list, 1, IF n < 0 THEN 0 ELSE IF n < Len(list) THEN n ELSE Len(list))

C4_FirstTopK ==
    IsRecs =>
      /\ Len(Returned) <= (IF call.top_k < 0 THEN 0 ELSE call.top_k)
      /\ Returned = FirstRecords(WholeList, call.top_k)

(***************************************************************************)
(* C5.  get_recommendations never raises, and returns the empty list for a *)
(* commander without training rows, for one the catalog lacks, and for one *)
(* none of whose companions is in the catalog.                             *)
(***************************************************************************)
C5_NotFoundIsEmpty ==
    IsRecs =>
      /\ ret.raised = "none"
      /\ (\/ TrainedWith(call.commander_name) = {}
          \/ ~InCatalog(call.commander_name)
          \/ Resolved(call.commander_name) = {})
           => Returned = <<>>

\* A commander of the catalog with training rows, none of which names a
\* creature of the catalog.
C5_Witness ==
    /\ IsRecs
    /\ InCatalog(call.commander_name)
    /\ TrainedWith(call.commander_name) # {}
    /\ Resolved(call.commander_name) = {}
    /\ Returned = <<>>

(***************************************************************************)
(* C6.  No returned record names the commander of the call.                *)
(***************************************************************************)
C6_NeverTheCommander ==
    IsRecs => call.commander_name \notin ReturnedNames

\* The commander is listed as its own companion, and the list is not empty.
C6_Witness ==
    /\ IsRecs
    /\ call.commander_name \in TrainedWith(call.commander_name)
    /\ call.include_known
    /\ Returned # <<>>

(***************************************************************************)
(* C7.  With include_known false no returned record names a creature that *)
(* a training row of the commander lists; a record is flagged is_known     *)
(* exactly if a training row of the commander lists its creature.          *)
(***************************************************************************)
C7_KnownLeftOut ==
    IsRecs =>
      /\ \A j \in DOMAIN Returned :
            Returned[j].is_known
              <=> Returned[j].creature_name \in TrainedWith(call.commander_name)
      /\ ~call.include_known =>
            \A j \in DOMAIN Returned :
               /\ Returned[j].creature_name \notin TrainedWith(call.commander_name)
               /\ ~Returned[j].is_known

\* include_known is false, the list is not empty, and a known companion is
\* a legal creature of the catalog other than the commander.
C7_Witness ==
    /\ IsRecs /\ Answered /\ Uncut
    /\ ~call.include_known
    /\ Returned # <<>>
    /\ \E n \in Resolved(call.commander_name) :
          /\ n # call.commander_name
          /\ Legal(CardOf(n).color_identity_parsed,
                   CardOf(call.commander_name).color_identity_parsed)

(***************************************************************************)
(* C8.  No query changes the catalog, the embeddings, the training rows,   *)
(* the pattern summary or a knob; and a get_recommendations call with the  *)
(* arguments of the first one returns what the first one returned,         *)
(* whatever was called in between.                                         *)
(***************************************************************************)
C8_ReadOnlyRepeatable ==
    [][ /\ engine' = engine
        /\ (first.seen /\ call' = first.call) => ret' = first.ret ]_vars

\* The first call is repeated after a different call, and returns records.
C8_Witness ==
    /\ first.seen /\ first.other
    /\ call = first.call
    /\ Returned # <<>>

(***************************************************************************)
(* C9.  As claimed: the three flags are the shares taken over the set of   *)
(* the commander's companions that are in the catalog, however often a     *)
(* training row lists one; all false when the set is empty.                *)
(***************************************************************************)
SetShare(S, T, share) == Cardinality(T) * 100 >= share * Cardinality(S)

PatternsOverSet(c) ==
    LET S == Resolved(c)
    IN IF S = {} THEN NoPatterns
       ELSE [high_power_boost |->
                SetShare(S, {n \in S : CardOf(n).power_clean >= HighPowerMin}, PowerShare),
             low_power_boost |->
                SetShare(S, {n \in S : CardOf(n).power_clean <= LowPowerMax}, PowerShare),
             high_toughness_boost |->
                SetShare(S, {n \in S : CardOf(n).toughness_clean > CardOf(n).power_clean},
                         ToughnessShare)]

C9_PatternsOverSet ==
    IsInfo /\ ret.info.present =>
      ret.info.power_toughness_patterns = PatternsOverSet(call.commander_name)

(***************************************************************************)
(* C10.  As claimed: against an engine that differs in a larger            *)
(* keyword_boost only, a record with the Keyword boost has a strictly      *)
(* larger final_score and any other record the same final_score.           *)
(***************************************************************************)
\* The list of the same call from an engine whose keyword_boost is d larger.
WithRaisedKeywordBoost(d) ==
    Recommendations([Config EXCEPT !.keyword_boost = @ + d], call.commander_name,
                    call.top_k, call.include_known).value

ScoreOf(list, n) ==
    list[CHOOSE j \in DOMAIN list : list[j].creature_name = n].final_score

C10_StrictlyLarger ==
    IsRecs /\ Uncut =>
      \A d \in 1..MaxRaise :
         With(WithRaisedKeywordBoost(d), LAMBDA raised :
            /\ {raised[j].creature_name : j \in DOMAIN raised} = ReturnedNames
            /\ \A j \in DOMAIN Returned :
                  IF GotBoost(Returned[j], "Keyword")
                  THEN ScoreOf(raised, Returned[j].creature_name) > Returned[j].final_score
                  ELSE ScoreOf(raised, Returned[j].creature_name) = Returned[j].final_score)

(***************************************************************************)
(* C10, amended.  A record with the Keyword boost has a strictly larger    *)
(* final_score if the penalties applied to it are positive, and the same   *)
(* final_score if one of them is zero; any other record has the same       *)
(* final_score.                                                            *)
(***************************************************************************)
\* The product of the penalties applied to a record, in 1/Scale^2.
PenaltyFactor(r) ==
    (IF r.is_known THEN known_penalty ELSE Scale)
      * (IF r.oracle_length < ShortTextLimit THEN short_text_penalty ELSE Scale)

C10_LargerUnlessZeroed ==
    IsRecs /\ Uncut =>
      \A d \in 1..MaxRaise :
         With(WithRaisedKeywordBoost(d), LAMBDA raised :
            /\ {raised[j].creature_name : j \in DOMAIN raised} = ReturnedNames
            /\ \A j \in DOMAIN Returned :
                  LET r == Returned[j]
                      s == ScoreOf(raised, r.creature_name)
                  IN IF GotBoost(r, "Keyword")
                     THEN /\ PenaltyFactor(r) > 0 => s > r.final_score
                          /\ PenaltyFactor(r) = 0 => s = r.final_score
                     ELSE s = r.final_score)

\* A list with a record that has the Keyword boost under positive
\* penalties, one that has it under a zero penalty, and one without it.
C10_Witness ==
    /\ IsRecs /\ Uncut
    /\ \E j \in DOMAIN Returned :
          GotBoost(Returned[j], "Keyword") /\ PenaltyFactor(Returned[j]) > 0
    /\ \E j \in DOMAIN Returned :
          GotBoost(Returned[j], "Keyword") /\ PenaltyFactor(Returned[j]) = 0
    /\ \E j \in DOMAIN Returned : ~GotBoost(Returned[j], "Keyword")

(***************************************************************************)
(* C11.  Construction fails fast: constructing the engine with a catalog   *)
(* of no creature ends in a construction error and hands out no engine,    *)
(* so no query ever runs against an engine whose catalog is empty.         *)
(***************************************************************************)
EmptyCatalog == Len(creatures_df) = 0

C11_FailsFast ==
    EmptyCatalog => /\ ready # "ready"
                    /\ call = NoCall

(***************************************************************************)
(* C12.  The keyword and the type boost are each applied at most once per  *)
(* candidate: a record has one Keyword boost of keyword_boost if a keyword *)
(* of the creature is in the commander's consensus-keyword list and none   *)
(* otherwise, however many keywords match; it has one Type boost of        *)
(* type_boost if a secondary-type tag of the creature is in the            *)
(* consensus-type list and none otherwise, and the Type label names the    *)
(* first consensus type, in the order of that list, the creature has.  A   *)
(* commander without a pattern summary gives neither boost.                *)
(***************************************************************************)
HasSummary == call.commander_name \in DOMAIN commander_patterns

\* The (value, support) pairs the summary of the queried commander lists.
SummaryPairs(key) ==
    IF HasSummary THEN commander_patterns[call.commander_name][key] ELSE <<>>

\* The positions of the summary's list whose value the creature carries.
SummaryMatches(key, carried) ==
    {j \in DOMAIN SummaryPairs(key) : SummaryPairs(key)[j][1] \in carried}

BoostsLabelled(r, label) == {b \in DOMAIN r.boosts : r.boosts[b].label = label}

C12_BoostsOnce ==
    IsRecs =>
      \A j \in DOMAIN Returned :
         LET r == Returned[j]
             card == CardOf(r.creature_name)
             kws == SummaryMatches("consensus_keywords", Range(card.keywords_parsed))
             tys == SummaryMatches("consensus_types", Range(card.secondary_type))
         IN /\ Cardinality(BoostsLabelled(r, "Keyword")) = IF kws = {} THEN 0 ELSE 1
            /\ \A b \in BoostsLabelled(r, "Keyword") : r.boosts[b].amount = keyword_boost
            /\ Cardinality(BoostsLabelled(r, "Type")) = IF tys = {} THEN 0 ELSE 1
            /\ \A b \in BoostsLabelled(r, "Type") :
                  /\ r.boosts[b].amount = type_boost
                  /\ \E t \in tys :
                        /\ \A u \in tys : t <= u
                        /\ r.boosts[b].detail = SummaryPairs("consensus_types")[t][1]
            /\ ~HasSummary => BoostsLabelled(r, "Keyword") \cup BoostsLabelled(r, "Type") = {}

\* A returned creature with two keywords of the consensus list and with two
\* tags of the consensus-type list, its own first tag not being the list's
\* first; and a returned creature that matches neither list.
C12_Witness ==
    /\ IsRecs /\ HasSummary
    /\ \E j \in DOMAIN Returned :
          LET card == CardOf(Returned[j].creature_name)
              kws == SummaryMatches("consensus_keywords", Range(card.keywords_parsed))
              tys == SummaryMatches("consensus_types", Range(card.secondary_type))
          IN /\ Cardinality(kws) >= 2
             /\ Cardinality(tys) >= 2
             /\ card.secondary_type[1] # SummaryPairs("consensus_types")[1][1]
             /\ GotBoost(Returned[j], "Keyword") /\ GotBoost(Returned[j], "Type")
    /\ \E j \in DOMAIN Returned :
          ~GotBoost(Returned[j], "Keyword") /\ ~GotBoost(Returned[j], "Type")

(***************************************************************************)
(* C13.  _get_power_toughness_patterns never answers high_power_boost and  *)
(* low_power_boost both true, so no record has power_boost added twice:    *)
(* its boosts hold at most one entry labelled HighPower or LowPower.       *)
(* high_toughness_boost may be true together with either.                  *)
(***************************************************************************)
InfoPatterns == ret.info.power_toughness_patterns

PowerBoosts(r) == BoostsLabelled(r, "HighPower") \cup BoostsLabelled(r, "LowPower")

C13_OnePowerPattern ==
    /\ (IsInfo /\ ret.info.present) =>
          ~(InfoPatterns.high_power_boost /\ InfoPatterns.low_power_boost)
    /\ IsRecs =>
          \A j \in DOMAIN Returned :
             /\ Cardinality(PowerBoosts(Returned[j])) <= 1
             /\ \A b \in PowerBoosts(Returned[j]) :
                   Returned[j].boosts[b].amount = power_boost

\* The patterns of a commander whose resolved companions are of high power,
\* three pairs in four, and of low power, the fourth, each with a higher
\* toughness: high_power_boost together with high_toughness_boost.
C13_Witness ==
    /\ IsInfo /\ ret.info.present
    /\ InfoPatterns.high_power_boost /\ InfoPatterns.high_toughness_boost
    /\ \E n \in Resolved(call.commander_name) : CardOf(n).power_clean <= LowPowerMax
    /\ \E n \in Resolved(call.commander_name) : CardOf(n).power_clean >= HighPowerMin

====
